---- MODULE Spec2Model ----
(***************************************************************************)
(* Dormitory roommate matching: the students table, the satisfaction       *)
(* scoring, the per-cluster maximum weight matching, the leftover          *)
(* resolution and the execute / preview / reset / create request handlers. *)
(*                                                                         *)
(* Satisfaction scores are floats in the program; here they are exact      *)
(* rationals [num, den] so that two scores are equal exactly when the      *)
(* program computes them from the same operands in the same way.           *)
(***************************************************************************)
EXTENDS Integers, Sequences, FiniteSets, TLC

\* ------------------------------------------------------------------ bounds
MaxStudents == 4

\* The group sizes and target sizes apply_draft_clustering is called with
\* directly.
MaxGroup == 4
MaxTargetSize == 3

\* ------------------------------------------------------- program constants
TargetSize == 100
WeekendBonusWeight == 20
None == -1

Genders == {"male", "female", "other"}

\* Attribute vectors a created student may carry (request bodies).
ProfileA ==
  [age |-> 21,
   weekday_sleep_time |-> 23, weekday_wake_time |-> 7,
   weekend_sleep_time |-> 1, weekend_wake_time |-> 10,
   goes_home_on_weekend |-> FALSE,
   late_night_return_frequency |-> 2, drinking_frequency |-> 1,
   noise_sensitivity |-> 3, call_frequency |-> 5, snores |-> FALSE,
   prefers_same_major |-> TRUE, major_name |-> "cs",
   cleaning_frequency |-> 3, personality_extroversion |-> 4,
   weight_lifestyle_rhythm |-> 70, weight_noise |-> 80, weight_major |-> 60,
   weight_cleaning |-> 40, weight_age |-> 30, weight_personality |-> 50]

ProfileB ==
  [age |-> 24,
   weekday_sleep_time |-> 1, weekday_wake_time |-> 9,
   weekend_sleep_time |-> 3, weekend_wake_time |-> 12,
   goes_home_on_weekend |-> TRUE,
   late_night_return_frequency |-> 4, drinking_frequency |-> 3,
   noise_sensitivity |-> 1, call_frequency |-> 2, snores |-> TRUE,
   prefers_same_major |-> FALSE, major_name |-> "math",
   cleaning_frequency |-> 1, personality_extroversion |-> 2,
   weight_lifestyle_rhythm |-> 30, weight_noise |-> 45, weight_major |-> 20,
   weight_cleaning |-> 20, weight_age |-> 15, weight_personality |-> 25]

Profiles == {ProfileA, ProfileB}

\* The request bodies of POST /students that are tried: every hard-filter
\* group, two different attribute vectors inside one group, and "other".
StudentInputs ==
  {[gender |-> "male", is_smoker |-> FALSE, profile |-> ProfileA],
   [gender |-> "male", is_smoker |-> FALSE, profile |-> ProfileB],
   [gender |-> "male", is_smoker |-> TRUE, profile |-> ProfileA],
   [gender |-> "female", is_smoker |-> FALSE, profile |-> ProfileB],
   [gender |-> "female", is_smoker |-> TRUE, profile |-> ProfileB],
   [gender |-> "other", is_smoker |-> FALSE, profile |-> ProfileA]}

\* ---------------------------------------------------------------- helpers
Abs(x) == IF x < 0 THEN -x ELSE x

Min(a, b) == IF a <= b THEN a ELSE b

RECURSIVE GCD(_, _)
GCD(a, b) == IF b = 0 THEN a ELSE GCD(b, a % b)

LCM(a, b) == (a \div GCD(a, b)) * b

\* Exact rationals [num, den], den > 0.
RatAdd(x, y) ==
  LET l == LCM(x.den, y.den)
  IN [num |-> x.num * (l \div x.den) + y.num * (l \div y.den), den |-> l]

RatLess(x, y) ==
  LET l == LCM(x.den, y.den)
  IN x.num * (l \div x.den) < y.num * (l \div y.den)

RatEq(x, y) ==
  LET l == LCM(x.den, y.den)
  IN x.num * (l \div x.den) = y.num * (l \div y.den)

RatZero == [num |-> 0, den |-> 1]

NoScore == [num |-> None, den |-> 1]

Range(s) == {s[i] : i \in DOMAIN s}

\* ---------------------------------------------------------------- scoring
\* Every dissatisfaction below is the program's value multiplied by
\* Scale = 7 * 53, the common denominator of the /7 and /106 divisions.
Scale == 7 * 53

Hundred == 100 * Scale

calculate_noise_dissatisfaction(evaluator, partner) ==
  LET sensitivity_diff ==
        Abs(evaluator.noise_sensitivity - partner.noise_sensitivity) * 25 * Scale
      snore_part ==
        IF partner.snores THEN evaluator.noise_sensitivity * 8 * Scale ELSE 0
      \* (call/7) * (sens/5) * 100 * 0.4 = 8 * call * sens / 7
      call_part ==
        8 * partner.call_frequency * evaluator.noise_sensitivity * 53
  IN Min(Hundred, (sensitivity_diff \div 5) + snore_part + call_part)

calculate_lifestyle_dissatisfaction(evaluator, partner) ==
  LET total_diff ==
          Abs(evaluator.weekday_sleep_time - partner.weekday_sleep_time)
        + Abs(evaluator.weekday_wake_time - partner.weekday_wake_time)
        + Abs(evaluator.weekend_sleep_time - partner.weekend_sleep_time)
        + Abs(evaluator.weekend_wake_time - partner.weekend_wake_time)
        + Abs(evaluator.late_night_return_frequency
              - partner.late_night_return_frequency)
        + Abs(evaluator.drinking_frequency - partner.drinking_frequency)
  \* total_diff / 106 * 100, times Scale = total_diff * 350
  IN Min(Hundred, total_diff * 350)

calculate_cleaning_dissatisfaction(evaluator, partner) ==
  Abs(evaluator.cleaning_frequency - partner.cleaning_frequency) * 100 * 53

\* Mutant: the age dissatisfaction is not clamped to 100.
calculate_age_dissatisfaction_unclamped(evaluator, partner) ==
  Abs(evaluator.age - partner.age) * 10 * Scale

calculate_age_dissatisfaction(evaluator, partner) ==
  Min(Hundred, Abs(evaluator.age - partner.age) * 10 * Scale)

calculate_personality_dissatisfaction(evaluator, partner) ==
  Abs(evaluator.personality_extroversion - partner.personality_extroversion)
    * 25 * Scale

calculate_major_dissatisfaction(evaluator, partner) ==
  LET same_major == (evaluator.major_name = partner.major_name)
  IN IF evaluator.prefers_same_major /\ same_major THEN 0
     ELSE IF evaluator.prefers_same_major /\ ~same_major THEN Hundred
     ELSE 50 * Scale

calculate_weekend_bonus(evaluator, partner) ==
  IF evaluator.goes_home_on_weekend # partner.goes_home_on_weekend
  THEN Hundred ELSE 50 * Scale

\* Mutant: each weight is the mean of the evaluator's and the partner's
\* (numerator and denominator both doubled).
calculate_individual_satisfaction_mean_weights(evaluator, partner) ==
  LET w(f) == evaluator[f] + partner[f]
      total_weight ==
          w("weight_noise") + w("weight_lifestyle_rhythm")
        + w("weight_cleaning") + w("weight_age")
        + w("weight_personality") + w("weight_major")
        + 2 * WeekendBonusWeight
      satisfaction ==
          (Hundred - calculate_noise_dissatisfaction(evaluator, partner))
             * w("weight_noise")
        + (Hundred - calculate_lifestyle_dissatisfaction(evaluator, partner))
             * w("weight_lifestyle_rhythm")
        + (Hundred - calculate_cleaning_dissatisfaction(evaluator, partner))
             * w("weight_cleaning")
        + (Hundred - calculate_age_dissatisfaction(evaluator, partner))
             * w("weight_age")
        + (Hundred - calculate_personality_dissatisfaction(evaluator, partner))
             * w("weight_personality")
        + (Hundred - calculate_major_dissatisfaction(evaluator, partner))
             * w("weight_major")
        + calculate_weekend_bonus(evaluator, partner) * 2 * WeekendBonusWeight
  IN [num |-> satisfaction, den |-> Scale * total_weight]

calculate_individual_satisfaction(evaluator, partner) ==
  LET total_weight ==
          evaluator.weight_noise + evaluator.weight_lifestyle_rhythm
        + evaluator.weight_cleaning + evaluator.weight_age
        + evaluator.weight_personality + evaluator.weight_major
        + WeekendBonusWeight
      satisfaction ==
          (Hundred - calculate_noise_dissatisfaction(evaluator, partner))
             * evaluator.weight_noise
        + (Hundred - calculate_lifestyle_dissatisfaction(evaluator, partner))
             * evaluator.weight_lifestyle_rhythm
        + (Hundred - calculate_cleaning_dissatisfaction(evaluator, partner))
             * evaluator.weight_cleaning
        + (Hundred - calculate_age_dissatisfaction(evaluator, partner))
             * evaluator.weight_age
        + (Hundred - calculate_personality_dissatisfaction(evaluator, partner))
             * evaluator.weight_personality
        + (Hundred - calculate_major_dissatisfaction(evaluator, partner))
             * evaluator.weight_major
        + calculate_weekend_bonus(evaluator, partner) * WeekendBonusWeight
  IN [num |-> satisfaction, den |-> Scale * total_weight]

calculate_blossom_score(student_a, student_b) ==
  LET satisfaction_a == calculate_individual_satisfaction(student_a, student_b)
      satisfaction_b == calculate_individual_satisfaction(student_b, student_a)
      sum == RatAdd(satisfaction_a, satisfaction_b)
  IN [num |-> sum.num, den |-> 2 * sum.den]

\* --------------------------------------------------------------- matching
\* A list of students is a sequence of ids; db maps an id to its record.
Pos(students_, id) == CHOOSE i \in DOMAIN students_ : students_[i] = id

\* G.add_edge(student_a.id, student_b.id, weight, sat_a, sat_b): the graph
\* is undirected, one attribute dictionary per edge, written with
\* student_a the endpoint that comes first in the list.
\* Mutant: the edge weight is the mean dissatisfaction (100 - score).
EdgeData_dissatisfaction(db, students_, u, v) ==
  LET first == IF Pos(students_, u) < Pos(students_, v) THEN u ELSE v
      second == IF first = u THEN v ELSE u
      satisfaction_a == calculate_individual_satisfaction(db[first], db[second])
      satisfaction_b == calculate_individual_satisfaction(db[second], db[first])
      sum == RatAdd(satisfaction_a, satisfaction_b)
  IN [sat_a |-> satisfaction_a, sat_b |-> satisfaction_b,
      weight |-> [num |-> 200 * sum.den - sum.num, den |-> 2 * sum.den]]

EdgeData(db, students_, u, v) ==
  LET first == IF Pos(students_, u) < Pos(students_, v) THEN u ELSE v
      second == IF first = u THEN v ELSE u
      satisfaction_a == calculate_individual_satisfaction(db[first], db[second])
      satisfaction_b == calculate_individual_satisfaction(db[second], db[first])
      sum == RatAdd(satisfaction_a, satisfaction_b)
  IN [sat_a |-> satisfaction_a, sat_b |-> satisfaction_b,
      weight |-> [num |-> sum.num, den |-> 2 * sum.den]]

\* All matchings of the complete graph on a set of node ids.
RECURSIVE Matchings(_)
Matchings(nodes) ==
  IF nodes = {} THEN {{}}
  ELSE LET x == CHOOSE n \in nodes : \A o \in nodes : n <= o
       IN Matchings(nodes \ {x})
          \cup UNION {{m \cup {{x, y}} : m \in Matchings(nodes \ {x, y})}
                      : y \in nodes \ {x}}

\* The total weight of a matching, from the table of edge weights.
RECURSIVE MatchingWeight(_, _)
MatchingWeight(weight, m) ==
  IF m = {} THEN RatZero
  ELSE LET e == CHOOSE f \in m : TRUE
       IN RatAdd(weight[e], MatchingWeight(weight, m \ {e}))

\* nx.max_weight_matching(G, maxcardinality=True): the matchings of
\* maximum cardinality, and among them those of maximum total weight.
max_weight_matching(db, students_) ==
  LET nodes == Range(students_)
      edges == {e \in SUBSET nodes : Cardinality(e) = 2}
      weight == [e \in edges |->
                   LET u == CHOOSE n \in e : TRUE
                       v == CHOOSE n \in e : n # u
                   IN EdgeData(db, students_, u, v).weight]
      all == Matchings(nodes)
      maxcard == {m \in all : \A o \in all : Cardinality(o) <= Cardinality(m)}
      total == [m \in maxcard |-> MatchingWeight(weight, m)]
  IN {m \in maxcard : \A o \in maxcard : ~RatLess(total[m], total[o])}

\* The library returns a set of 2-tuples: each edge in either endpoint
\* order, iterated in any order.
RECURSIVE MatchingReports(_)
MatchingReports(m) ==
  IF m = {} THEN {<<>>}
  ELSE UNION {{<<<<u, v>>>> \o r :
                 u \in e, v \in e, r \in MatchingReports(m \ {e})}
              \ {<<<<u, u>>>> \o r : u \in e, r \in MatchingReports(m \ {e})}
              : e \in m}

\* The result tuples built from one report of the library.
BuildPairs(db, students_, matching) ==
  [k \in 1..Len(matching) |->
     LET id_a == matching[k][1]
         id_b == matching[k][2]
         edge_data == EdgeData(db, students_, id_a, id_b)
     IN [student_a |-> id_a, student_b |-> id_b,
         satisfaction_a |-> edge_data.sat_a,
         satisfaction_b |-> edge_data.sat_b]]

MatchedIds(pairs) ==
  {pairs[k].student_a : k \in DOMAIN pairs}
    \cup {pairs[k].student_b : k \in DOMAIN pairs}

\* Mutant: the unmatched list is not filtered by matched_ids.
UnmatchedOf_unfiltered(students_, matched_ids) == students_

UnmatchedOf(students_, matched_ids) ==
  SelectSeq(students_, LAMBDA s : s \notin matched_ids)

\* Mutant: the early return also takes clusters of two.
TooFewToMatch_two(students_) == Len(students_) <= 2

\* The early return of blossom_match_cluster.
TooFewToMatch(students_) == Len(students_) < 2

\* blossom_match_cluster: the set of results it can return.
blossom_match_cluster(db, students_) ==
  IF TooFewToMatch(students_)
  THEN {[matched_pairs |-> <<>>, unmatched |-> students_]}
  ELSE {LET matched_pairs == BuildPairs(db, students_, matching)
        IN [matched_pairs |-> matched_pairs,
            unmatched |-> UnmatchedOf(students_, MatchedIds(matched_pairs))]
        : matching \in UNION {MatchingReports(m)
                                : m \in max_weight_matching(db, students_)}}

\* Mutant: the leftover stage pairs nobody.
handle_remaining_students_noop(db, students_) ==
  {[matched_pairs |-> <<>>, unmatched |-> students_]}

handle_remaining_students(db, students_) ==
  IF Len(students_) < 2
  THEN {[matched_pairs |-> <<>>, unmatched |-> students_]}
  ELSE blossom_match_cluster(db, students_)

\* ------------------------------------------------------------- clustering
\* Mutant: a group that needs no clustering is labelled 1, not 0.
apply_draft_clustering_from_one(students_, target_size) ==
  IF Len(students_) <= target_size
  THEN {[i \in 1..Len(students_) |-> 1]}
  ELSE LET quotient == Len(students_) \div target_size
           n_clusters == IF quotient < 1 THEN 1 ELSE quotient
       IN [1..Len(students_) -> 0..(n_clusters - 1)]

\* apply_draft_clustering: the cluster labels (one per list position) it can
\* write.  KMeans is a library call; any labelling into n_clusters labels
\* is possible for it.
apply_draft_clustering(students_, target_size) ==
  IF Len(students_) <= target_size
  THEN {[i \in 1..Len(students_) |-> 0]}
  ELSE LET quotient == Len(students_) \div target_size
           n_clusters == IF quotient < 1 THEN 1 ELSE quotient
       IN [1..Len(students_) -> 0..(n_clusters - 1)]

\* Mutant: a cluster's list is overwritten, not appended to, so it keeps
\* its last member only.
get_students_by_cluster_overwrite(students_, labels) ==
  LET positions == [i \in 1..Len(students_) |-> i]
      firsts == SelectSeq(positions,
                  LAMBDA i : \A j \in 1..(i - 1) : labels[j] # labels[i])
      last(lab) == CHOOSE i \in 1..Len(students_) :
                     /\ labels[i] = lab
                     /\ \A j \in (i + 1)..Len(students_) : labels[j] # lab
  IN [k \in 1..Len(firsts) |-> <<students_[last(labels[firsts[k]])]>>]

\* get_students_by_cluster: the dictionary's values, in insertion order.
get_students_by_cluster(students_, labels) ==
  LET positions == [i \in 1..Len(students_) |-> i]
      firsts == SelectSeq(positions,
                  LAMBDA i : \A j \in 1..(i - 1) : labels[j] # labels[i])
      members(lab) == SelectSeq(positions, LAMBDA i : labels[i] = lab)
  IN [k \in 1..Len(firsts) |->
        [j \in 1..Len(members(labels[firsts[k]])) |->
           students_[members(labels[firsts[k]])[j]]]]

\* ---------------------------------------------------------------- pipeline
\* The loop over the clusters of one group.
RECURSIVE MatchClusters(_, _)
MatchClusters(db, clusters) ==
  IF clusters = <<>>
  THEN {[pairs |-> <<>>, remaining |-> <<>>, calls |-> {}]}
  ELSE {[pairs |-> r.matched_pairs \o rest.pairs,
         remaining |-> r.unmatched \o rest.remaining,
         calls |-> {[students |-> Head(clusters),
                     matched_pairs |-> r.matched_pairs,
                     unmatched |-> r.unmatched]} \cup rest.calls]
        : r \in blossom_match_cluster(db, Head(clusters)),
          rest \in MatchClusters(db, Tail(clusters))}

\* One iteration of the loop over the four groups.
MatchGroup(db, group) ==
  IF group = <<>>
  THEN {[pairs |-> <<>>, remaining |-> <<>>, calls |-> {}, labels |-> <<>>,
         group |-> group]}
  ELSE UNION {{[pairs |-> r.pairs, remaining |-> r.remaining,
                calls |-> r.calls, labels |-> labels, group |-> group]
               : r \in MatchClusters(db, get_students_by_cluster(group, labels))}
              : labels \in apply_draft_clustering(group, TargetSize)}

\* Mutant: the pooled leftovers are not split by gender.
RemainingOfGender_pooled(db, all_remaining, gender) == all_remaining

\* The split of the pooled leftovers.
RemainingOfGender(db, all_remaining, gender) ==
  SelectSeq(all_remaining, LAMBDA s : db[s].gender = gender)

\* Mutant: the leftover stage matches the male pool only.
ResolveRemaining_males_only(db, pairs, all_remaining, calls) ==
  IF all_remaining = <<>>
  THEN {[all_matched_pairs |-> pairs, all_remaining |-> all_remaining,
         calls |-> calls, n_cluster_pairs |-> Len(pairs)]}
  ELSE LET male_remaining == RemainingOfGender(db, all_remaining, "male")
           female_remaining == RemainingOfGender(db, all_remaining, "female")
           males == IF Len(male_remaining) >= 2
                    THEN handle_remaining_students(db, male_remaining)
                    ELSE {[matched_pairs |-> <<>>, unmatched |-> male_remaining]}
           call(input, r) == IF Len(input) >= 2
                             THEN {[students |-> input,
                                    matched_pairs |-> r.matched_pairs,
                                    unmatched |-> r.unmatched]}
                             ELSE {}
       IN {[all_matched_pairs |-> pairs \o m.matched_pairs,
            all_remaining |-> m.unmatched \o female_remaining,
            calls |-> calls \cup call(male_remaining, m),
            n_cluster_pairs |-> Len(pairs)]
           : m \in males}

\* The leftover stage, applied to the pairs and leftovers of the groups.
ResolveRemaining(db, pairs, all_remaining, calls) ==
  IF all_remaining = <<>>
  THEN {[all_matched_pairs |-> pairs, all_remaining |-> all_remaining,
         calls |-> calls, n_cluster_pairs |-> Len(pairs)]}
  ELSE LET male_remaining == RemainingOfGender(db, all_remaining, "male")
           female_remaining == RemainingOfGender(db, all_remaining, "female")
           males == IF Len(male_remaining) >= 2
                    THEN handle_remaining_students(db, male_remaining)
                    ELSE {[matched_pairs |-> <<>>, unmatched |-> male_remaining]}
           females == IF Len(female_remaining) >= 2
                      THEN handle_remaining_students(db, female_remaining)
                      ELSE {[matched_pairs |-> <<>>,
                             unmatched |-> female_remaining]}
           call(input, r) == IF Len(input) >= 2
                             THEN {[students |-> input,
                                    matched_pairs |-> r.matched_pairs,
                                    unmatched |-> r.unmatched]}
                             ELSE {}
       IN {[all_matched_pairs |-> pairs \o m.matched_pairs \o f.matched_pairs,
            all_remaining |-> m.unmatched \o f.unmatched,
            calls |-> calls \cup call(male_remaining, m)
                            \cup call(female_remaining, f),
            n_cluster_pairs |-> Len(pairs)]
           : m \in males, f \in females}

\* The cluster_id each grouped student object carries after clustering.
ClusterIds(o1, o2, o3, o4) ==
  LET of(o) == [s \in Range(o.group) |-> o.labels[Pos(o.group, s)]]
  IN of(o1) @@ of(o2) @@ of(o3) @@ of(o4)

\* match_students_by_groups: the set of results it can return.  Beside the
\* returned all_matched_pairs a result records the calls made to
\* blossom_match_cluster, the final all_remaining, how many of the pairs
\* come from the cluster stage, and the cluster ids written on the objects.
match_students_by_groups(db, male_non_smoker, male_smoker, female_non_smoker, female_smoker) ==
  UNION {{[all_matched_pairs |-> r.all_matched_pairs,
           all_remaining |-> r.all_remaining,
           calls |-> r.calls,
           n_cluster_pairs |-> r.n_cluster_pairs,
           cluster_id |-> ClusterIds(o1, o2, o3, o4)]
          : r \in ResolveRemaining(db,
                    o1.pairs \o o2.pairs \o o3.pairs \o o4.pairs,
                    o1.remaining \o o2.remaining \o o3.remaining
                      \o o4.remaining,
                    o1.calls \cup o2.calls \cup o3.calls \cup o4.calls)}
         : o1 \in MatchGroup(db, male_non_smoker),
           o2 \in MatchGroup(db, male_smoker),
           o3 \in MatchGroup(db, female_non_smoker),
           o4 \in MatchGroup(db, female_smoker)}

\* ------------------------------------------------------------------ state
VARIABLES
  students,   \* the students table: id -> row
  next_id,    \* the next fresh primary key
  response,   \* what the last request returned or raised
  run,        \* the intermediate values of the last execute_matching call
  probe       \* the arguments and results of the last direct function call,
              \* or the requests in flight when requests run concurrently

vars == <<students, next_id, response, run, probe>>

Ids == 1..MaxStudents

\* Student(**student_data.model_dump()) with the column defaults.
NewStudent(id, gender, is_smoker, profile) ==
  [id |-> id, student_id |-> id, gender |-> gender, is_smoker |-> is_smoker,
   is_matched |-> FALSE, matched_room_id |-> None,
   my_satisfaction_score |-> NoScore,
   partner_satisfaction_score |-> NoScore,
   cluster_id |-> None] @@ profile

NoStatistics ==
  [total_students |-> 0, matched_students |-> 0, unmatched_students |-> 0,
   total_rooms |-> 0, average_satisfaction |-> RatZero,
   min_satisfaction |-> RatZero, max_satisfaction |-> RatZero]

NoRun ==
  [unmatched_students |-> <<>>, all_matched_pairs |-> <<>>,
   n_cluster_pairs |-> 0, all_remaining |-> <<>>, calls |-> {},
   assignments |-> <<>>, grouped |-> FALSE]

\* Mutant: the no-match error falls through to the MatchingException
\* branch.
http_status_nomatch_500(op, outcome) ==
  IF outcome = "ok" THEN (IF op = "create" THEN 201 ELSE 200)
  ELSE IF outcome = "insufficient" THEN 400
  ELSE IF outcome = "nomatch" THEN 500
  ELSE IF outcome = "exists" THEN 409
  ELSE None

\* The status code of a response: the decorator's status_code on return,
\* the HTTPException's status_code on an error.
http_status(op, outcome) ==
  IF outcome = "ok" THEN (IF op = "create" THEN 201 ELSE 200)
  ELSE IF outcome = "insufficient" THEN 400
  ELSE IF outcome = "nomatch" THEN 404
  ELSE IF outcome = "exists" THEN 409
  ELSE None

Raised(op, outcome, dry_run) ==
  [op |-> op, outcome |-> outcome, dry_run |-> dry_run,
   status_code |-> http_status(op, outcome),
   students_updated |-> 0, statistics |-> NoStatistics]

NoProbe == [fn |-> "none"]

Init ==
  /\ students = <<>>
  /\ next_id = 1
  /\ response = Raised("none", "none", FALSE)
  /\ run = NoRun
  /\ probe = NoProbe

\* ------------------------------------------------------------- repository
\* Rows come back in primary-key (creation) order.
RECURSIVE SortedSeq(_)
SortedSeq(ids) ==
  IF ids = {} THEN <<>>
  ELSE LET x == CHOOSE n \in ids : \A o \in ids : n <= o
       IN <<x>> \o SortedSeq(ids \ {x})

get_all_students(db) == SortedSeq(DOMAIN db)

\* Mutant: the query has no is_matched filter.
get_unmatched_students_all(db) == SortedSeq(DOMAIN db)

get_unmatched_students(db) ==
  SortedSeq({s \in DOMAIN db : db[s].is_matched = FALSE})

RECURSIVE assign_matches(_, _)
assign_matches(session, assignments) ==
  IF assignments = <<>> THEN session
  ELSE LET a == Head(assignments)
           updated ==
             [session EXCEPT
                ![a.student_a] =
                   [@ EXCEPT !.is_matched = TRUE,
                             !.matched_room_id = a.room_id,
                             !.my_satisfaction_score = a.sat_a,
                             !.partner_satisfaction_score = a.sat_b],
                ![a.student_b] =
                   [@ EXCEPT !.is_matched = TRUE,
                             !.matched_room_id = a.room_id,
                             !.my_satisfaction_score = a.sat_b,
                             !.partner_satisfaction_score = a.sat_a]]
       IN assign_matches(updated, Tail(assignments))

\* Mutant: the update leaves matched_room_id as it is.
reset_all_matches_keep_room(db) ==
  [s \in DOMAIN db |->
     [db[s] EXCEPT !.is_matched = FALSE,
                   !.my_satisfaction_score = NoScore,
                   !.partner_satisfaction_score = NoScore,
                   !.cluster_id = None]]

reset_all_matches(db) ==
  [s \in DOMAIN db |->
     [db[s] EXCEPT !.is_matched = FALSE, !.matched_room_id = None,
                   !.my_satisfaction_score = NoScore,
                   !.partner_satisfaction_score = NoScore,
                   !.cluster_id = None]]

\* ---------------------------------------------------------------- service
\* Mutant: the maximum room id itself is handed out again.
get_next_room_id_max(db) ==
  LET matched == {s \in DOMAIN db : db[s].matched_room_id # None}
  IN IF matched = {} THEN 1
     ELSE CHOOSE r \in {db[s].matched_room_id : s \in matched} :
            \A s \in matched : db[s].matched_room_id <= r

get_next_room_id(db) ==
  LET matched == {s \in DOMAIN db : db[s].matched_room_id # None}
  IN IF matched = {} THEN 1
     ELSE (CHOOSE r \in {db[s].matched_room_id : s \in matched} :
             \A s \in matched : db[s].matched_room_id <= r) + 1

\* Mutant: everyone who is not female goes to the male groups.
HardFilter_other_as_male(db, unmatched_students, gender, is_smoker) ==
  SelectSeq(unmatched_students,
            LAMBDA s : /\ (db[s].gender = "female") = (gender = "female")
                       /\ db[s].is_smoker = is_smoker)

\* Mutant: the groups are filtered by gender only.
HardFilter_gender_only(db, unmatched_students, gender, is_smoker) ==
  SelectSeq(unmatched_students, LAMBDA s : db[s].gender = gender)

\* Step 2 of execute_matching: one hard-filter group.
HardFilter(db, unmatched_students, gender, is_smoker) ==
  SelectSeq(unmatched_students,
            LAMBDA s : db[s].gender = gender /\ db[s].is_smoker = is_smoker)

\* Mutant: room_counter is not incremented in the loop.
Assignments_same_room(matched_pairs, room_counter) ==
  [k \in 1..Len(matched_pairs) |->
     [student_a |-> matched_pairs[k].student_a,
      student_b |-> matched_pairs[k].student_b,
      room_id |-> room_counter,
      sat_a |-> matched_pairs[k].satisfaction_a,
      sat_b |-> matched_pairs[k].satisfaction_b]]

\* Step 5: the assignments list.
Assignments(matched_pairs, room_counter) ==
  [k \in 1..Len(matched_pairs) |->
     [student_a |-> matched_pairs[k].student_a,
      student_b |-> matched_pairs[k].student_b,
      room_id |-> room_counter + (k - 1),
      sat_a |-> matched_pairs[k].satisfaction_a,
      sat_b |-> matched_pairs[k].satisfaction_b]]

AllSatisfactions(matched_pairs) ==
  [k \in 1..(2 * Len(matched_pairs)) |->
     IF k % 2 = 1 THEN matched_pairs[(k + 1) \div 2].satisfaction_a
     ELSE matched_pairs[k \div 2].satisfaction_b]

RECURSIVE RatSum(_)
RatSum(seq) == IF seq = <<>> THEN RatZero ELSE RatAdd(Head(seq), RatSum(Tail(seq)))

Statistics(unmatched_students, matched_pairs) ==
  LET all_satisfactions == AllSatisfactions(matched_pairs)
      n == Len(all_satisfactions)
      total == RatSum(all_satisfactions)
  IN [total_students |-> Len(unmatched_students),
      matched_students |-> Len(matched_pairs) * 2,
      unmatched_students |-> Len(unmatched_students) - Len(matched_pairs) * 2,
      total_rooms |-> Len(matched_pairs),
      average_satisfaction |->
        IF n = 0 THEN RatZero ELSE [num |-> total.num, den |-> total.den * n],
      min_satisfaction |->
        IF n = 0 THEN RatZero
        ELSE CHOOSE x \in Range(all_satisfactions) :
               \A y \in Range(all_satisfactions) : ~RatLess(y, x),
      max_satisfaction |->
        IF n = 0 THEN RatZero
        ELSE CHOOSE x \in Range(all_satisfactions) :
               \A y \in Range(all_satisfactions) : ~RatLess(x, y)]

\* The student objects of the session after clustering wrote cluster_id.
WithClusterIds(db, cluster_id) ==
  [s \in DOMAIN db |->
     IF s \in DOMAIN cluster_id
     THEN [db[s] EXCEPT !.cluster_id = cluster_id[s]] ELSE db[s]]

\* Mutant: the session is committed whether or not the handler raised.
get_db_commit_always(db, session, raised) == session

\* get_db: the request's session is committed when the handler returns and
\* rolled back when it raises.
get_db(db, session, raised) == IF raised THEN db ELSE session

\* Mutant: the check lets a single student through.
InsufficientStudents_one(unmatched_students) == Len(unmatched_students) < 1

\* Whether the insufficient-candidates check raises.
InsufficientStudents(unmatched_students) == Len(unmatched_students) < 2

\* Mutant: the no-match check is missing.
NoMatches_never(matched_pairs) == FALSE

\* Whether the no-match check raises.
NoMatches(matched_pairs) == matched_pairs = <<>>

\* Mutant: step 6 is skipped for every run.
Persists_never(dry_run) == FALSE

\* Mutant: dry_run is ignored.
Persists_always(dry_run) == TRUE

\* Whether step 6 calls assign_matches.
Persists(dry_run) == ~dry_run

execute_matching(dry_run) ==
  LET unmatched_students == get_unmatched_students(students)
  IN IF InsufficientStudents(unmatched_students)
     THEN /\ response' = Raised("execute", "insufficient", dry_run)
          /\ run' = [NoRun EXCEPT !.unmatched_students = unmatched_students]
          /\ students' = get_db(students, students, TRUE)
          /\ UNCHANGED <<next_id, probe>>
     ELSE \E res \in match_students_by_groups(students,
                       HardFilter(students, unmatched_students, "male", FALSE),
                       HardFilter(students, unmatched_students, "male", TRUE),
                       HardFilter(students, unmatched_students, "female", FALSE),
                       HardFilter(students, unmatched_students, "female", TRUE)) :
            LET matched_pairs == res.all_matched_pairs
                clustered == WithClusterIds(students, res.cluster_id)
                room_counter == get_next_room_id(students)
                assignments == Assignments(matched_pairs, room_counter)
                this_run == [unmatched_students |-> unmatched_students,
                             all_matched_pairs |-> matched_pairs,
                             n_cluster_pairs |-> res.n_cluster_pairs,
                             all_remaining |-> res.all_remaining,
                             calls |-> res.calls,
                             assignments |-> <<>>,
                             grouped |-> TRUE]
            IN IF NoMatches(matched_pairs)
               THEN /\ response' = Raised("execute", "nomatch", dry_run)
                    /\ run' = this_run
                    /\ students' = get_db(students, clustered, TRUE)
                    /\ UNCHANGED <<next_id, probe>>
               ELSE /\ response' =
                         [op |-> "execute", outcome |-> "ok",
                          dry_run |-> dry_run,
                          status_code |-> http_status("execute", "ok"),
                          students_updated |->
                            IF Persists(dry_run) THEN 2 * Len(assignments)
                            ELSE 0,
                          statistics |->
                            Statistics(unmatched_students, matched_pairs)]
                    /\ run' = [this_run EXCEPT !.assignments = assignments]
                    /\ students' =
                         get_db(students,
                                IF Persists(dry_run)
                                THEN assign_matches(clustered, assignments)
                                ELSE clustered,
                                FALSE)
                    /\ UNCHANGED <<next_id, probe>>

\* POST /matching/execute
ExecuteMatching == \E dry_run \in BOOLEAN : execute_matching(dry_run)

\* GET /matching/preview
PreviewMatching == execute_matching(TRUE)

\* DELETE /matching/reset
ResetMatching ==
  /\ students' = reset_all_matches(students)
  /\ response' = [Raised("reset", "ok", FALSE) EXCEPT
                    !.students_updated = Cardinality(DOMAIN students)]
  /\ run' = NoRun
  /\ UNCHANGED <<next_id, probe>>

\* POST /students
CreateStudent ==
  \E student_id \in Ids :
    IF \E s \in DOMAIN students : students[s].student_id = student_id
    THEN /\ response' = Raised("create", "exists", FALSE)
         /\ run' = NoRun
         /\ UNCHANGED <<students, next_id, probe>>
    ELSE /\ student_id = next_id
         /\ \E input \in StudentInputs :
              students' = students @@
                (next_id :> NewStudent(next_id, input.gender, input.is_smoker,
                                       input.profile))
         /\ next_id' = next_id + 1
         /\ response' = Raised("create", "ok", FALSE)
         /\ run' = NoRun
         /\ UNCHANGED probe

Next ==
  \/ ExecuteMatching
  \/ PreviewMatching
  \/ ResetMatching
  \/ CreateStudent

Spec == Init /\ [][Next]_vars

\* ------------------------------------------------- scoring, called directly
\* The attribute values and the weights the scoring functions are tried on:
\* the ends of every documented range, and the two request bodies above.
AttributeFields ==
  {"age", "weekday_sleep_time", "weekday_wake_time", "weekend_sleep_time",
   "weekend_wake_time", "goes_home_on_weekend", "late_night_return_frequency",
   "drinking_frequency", "noise_sensitivity", "call_frequency", "snores",
   "prefers_same_major", "major_name", "cleaning_frequency",
   "personality_extroversion"}

WeightFields ==
  {"weight_lifestyle_rhythm", "weight_noise", "weight_major",
   "weight_cleaning", "weight_age", "weight_personality"}

AttributesLow ==
  [age |-> 18,
   weekday_sleep_time |-> 0, weekday_wake_time |-> 0,
   weekend_sleep_time |-> 0, weekend_wake_time |-> 0,
   goes_home_on_weekend |-> FALSE,
   late_night_return_frequency |-> 0, drinking_frequency |-> 0,
   noise_sensitivity |-> 1, call_frequency |-> 0, snores |-> FALSE,
   prefers_same_major |-> FALSE, major_name |-> "cs",
   cleaning_frequency |-> 0, personality_extroversion |-> 1]

AttributesHigh ==
  [age |-> 100,
   weekday_sleep_time |-> 23, weekday_wake_time |-> 23,
   weekend_sleep_time |-> 23, weekend_wake_time |-> 23,
   goes_home_on_weekend |-> TRUE,
   late_night_return_frequency |-> 7, drinking_frequency |-> 7,
   noise_sensitivity |-> 5, call_frequency |-> 7, snores |-> TRUE,
   prefers_same_major |-> TRUE, major_name |-> "math",
   cleaning_frequency |-> 7, personality_extroversion |-> 5]

\* The loudest partner for a sensitive evaluator.
AttributesLoud ==
  [AttributesLow EXCEPT !.call_frequency = 7, !.snores = TRUE]

ScoreAttributes ==
  {AttributesLow, AttributesHigh, AttributesLoud,
   [f \in AttributeFields |-> ProfileA[f]],
   [f \in AttributeFields |-> ProfileB[f]]}

ScoreWeights ==
  {[f \in WeightFields |-> 0], [f \in WeightFields |-> 100],
   [f \in WeightFields |-> ProfileA[f]], [f \in WeightFields |-> ProfileB[f]]}
    \cup {[f \in WeightFields |-> IF f = g THEN 100 ELSE 0] : g \in WeightFields}

ScorePeople == {a @@ w : a \in ScoreAttributes, w \in ScoreWeights}

\* The arguments of one call: an ordered pair of people.
ScoreInit ==
  /\ students = <<>>
  /\ next_id = 1
  /\ response = Raised("none", "none", FALSE)
  /\ run = NoRun
  /\ probe \in {[fn |-> "score_args", evaluator |-> evaluator,
                 partner |-> partner]
                  : evaluator \in ScorePeople, partner \in ScorePeople}

\* calculate_individual_satisfaction in both directions, and the edge
\* weight, for the ordered pair.
Score ==
  /\ probe.fn = "score_args"
  /\ probe' = [fn |-> "score", evaluator |-> probe.evaluator,
               partner |-> probe.partner,
               satisfaction_a |->
                 calculate_individual_satisfaction(probe.evaluator,
                                                   probe.partner),
               satisfaction_b |->
                 calculate_individual_satisfaction(probe.partner,
                                                   probe.evaluator),
               blossom_score |->
                 calculate_blossom_score(probe.evaluator, probe.partner)]
  /\ UNCHANGED <<students, next_id, response, run>>

ScoreSpec == ScoreInit /\ [][Score]_vars

\* ---------------------------------------------- clustering, called directly
\* A hard-filter group of n people: male non-smokers, ids 1..n.
ClusterPopulation(n) ==
  [i \in 1..n |->
     NewStudent(i, "male", FALSE, IF i % 2 = 1 THEN ProfileA ELSE ProfileB)]

\* The calls tried: every small group with every small target size, and
\* the pipeline's own target size with a group of one more person.
ClusterInputs ==
  {[n |-> n, target_size |-> target_size]
     : n \in 0..MaxGroup, target_size \in 1..MaxTargetSize}
    \cup {[n |-> TargetSize + 1, target_size |-> TargetSize]}

ClusterInit ==
  /\ students = <<>>
  /\ next_id = 1
  /\ response = Raised("none", "none", FALSE)
  /\ run = NoRun
  /\ probe \in {[fn |-> "cluster_args", n |-> input.n,
                 target_size |-> input.target_size] : input \in ClusterInputs}

\* apply_draft_clustering(students, target_size) followed by
\* get_students_by_cluster(students): the records before and after the
\* call, the labels and the clusters.
ApplyDraftClustering ==
  /\ probe.fn = "cluster_args"
  /\ LET db == ClusterPopulation(probe.n)
         group == [i \in 1..probe.n |-> i]
     IN \E labels \in apply_draft_clustering(group, probe.target_size) :
          probe' = [fn |-> "clustered", n |-> probe.n,
                    target_size |-> probe.target_size,
                    group |-> group,
                    before |-> db,
                    after |-> WithClusterIds(db,
                                [s \in Range(group) |-> labels[Pos(group, s)]]),
                    labels |-> labels,
                    clusters |-> get_students_by_cluster(group, labels)]
  /\ UNCHANGED <<students, next_id, response, run>>

\* The loop of match_students_by_groups over the clusters of the group, and
\* its leftover stage.
MatchDraftClusters ==
  /\ probe.fn = "clustered"
  /\ probe.n <= MaxGroup
  /\ \E r \in MatchClusters(probe.after, probe.clusters) :
       \E res \in ResolveRemaining(probe.after, r.pairs, r.remaining, r.calls) :
         probe' = [fn |-> "matched", n |-> probe.n,
                   target_size |-> probe.target_size,
                   group |-> probe.group,
                   before |-> probe.before,
                   after |-> probe.after,
                   labels |-> probe.labels,
                   clusters |-> probe.clusters,
                   all_matched_pairs |-> res.all_matched_pairs,
                   n_cluster_pairs |-> res.n_cluster_pairs,
                   all_remaining |-> res.all_remaining]
  /\ UNCHANGED <<students, next_id, response, run>>

ClusterNext ==
  \/ ApplyDraftClustering
  \/ MatchDraftClusters

ClusterSpec == ClusterInit /\ [][ClusterNext]_vars

\* ---------------------------------------------- statistics, called directly
\* The satisfactions are Python floats (IEEE 754 binary64) and the average
\* is computed with binary64 additions and one binary64 division.  A float
\* in [1, 2^11) is a whole number of units of 2^-52; it is written as four
\* limbs of 20 bits, the least significant first.
MaxPairs == 3

Limb == 1048576

BigZero == <<0, 0, 0, 0>>

BigAdd(a, b) ==
  LET s1 == a[1] + b[1]
      s2 == a[2] + b[2] + s1 \div Limb
      s3 == a[3] + b[3] + s2 \div Limb
      s4 == a[4] + b[4] + s3 \div Limb
  IN <<s1 % Limb, s2 % Limb, s3 % Limb, s4>>

BigLess(a, b) ==
  \E i \in 1..4 : a[i] < b[i] /\ \A j \in (i + 1)..4 : a[j] = b[j]

RECURSIVE BitLen(_)
BitLen(n) == IF n = 0 THEN 0 ELSE 1 + BitLen(n \div 2)

BigBitLen(a) ==
  IF a[4] > 0 THEN 60 + BitLen(a[4])
  ELSE IF a[3] > 0 THEN 40 + BitLen(a[3])
  ELSE IF a[2] > 0 THEN 20 + BitLen(a[2])
  ELSE BitLen(a[1])

RECURSIVE Pow2(_)
Pow2(k) == IF k = 0 THEN 1 ELSE 2 * Pow2(k - 1)

\* Round-to-nearest, ties-to-even, to 53 significant bits, of the exact
\* value a + f units, where 0 <= f < 1 and below says how f compares with
\* one half: "zero", "less", "half" or "more".  At most 19 bits are dropped.
RoundToDouble(a, below) ==
  LET k == BigBitLen(a) - 53
  IN IF k <= 0
     THEN IF below = "more" \/ (below = "half" /\ a[1] % 2 = 1)
          THEN BigAdd(a, <<1, 0, 0, 0>>) ELSE a
     ELSE LET r == a[1] % Pow2(k)
              half == Pow2(k - 1)
              odd == (a[1] \div Pow2(k)) % 2 = 1
              up == \/ r > half
                    \/ r = half /\ below # "zero"
                    \/ r = half /\ below = "zero" /\ odd
          IN BigAdd(<<a[1] - r, a[2], a[3], a[4]>>,
                    IF up THEN <<Pow2(k), 0, 0, 0>> ELSE BigZero)

\* float + float
FloatAdd(a, b) == RoundToDouble(BigAdd(a, b), "zero")

\* float / int, for a small positive int
FloatDiv(a, n) ==
  LET t4 == a[4]
      t3 == (t4 % n) * Limb + a[3]
      t2 == (t3 % n) * Limb + a[2]
      t1 == (t2 % n) * Limb + a[1]
      rem == t1 % n
      below == IF rem = 0 THEN "zero"
               ELSE IF 2 * rem < n THEN "less"
               ELSE IF 2 * rem = n THEN "half" ELSE "more"
  IN RoundToDouble(<<t1 \div n, t2 \div n, t3 \div n, t4 \div n>>, below)

\* sum(iterable) up to Python 3.11: float additions from left to right.
RECURSIVE SumLeftToRight(_, _)
SumLeftToRight(start, seq) ==
  IF seq = <<>> THEN start
  ELSE SumLeftToRight(FloatAdd(start, Head(seq)), Tail(seq))

\* sum(iterable) from Python 3.12 on: compensated summation, which on the
\* lists tried returns the exact sum rounded once.
RECURSIVE BigSum(_)
BigSum(seq) == IF seq = <<>> THEN BigZero ELSE BigAdd(Head(seq), BigSum(Tail(seq)))

SumCompensated(seq) == RoundToDouble(BigSum(seq), "zero")

\* The values sum() can return, over the interpreters the program runs on.
builtin_sum(seq) == {SumLeftToRight(BigZero, seq), SumCompensated(seq)}

\* A third attribute vector, within the documented ranges.
ProfileC ==
  [age |-> 26,
   weekday_sleep_time |-> 17, weekday_wake_time |-> 19,
   weekend_sleep_time |-> 19, weekend_wake_time |-> 10,
   goes_home_on_weekend |-> TRUE,
   late_night_return_frequency |-> 0, drinking_frequency |-> 3,
   noise_sensitivity |-> 2, call_frequency |-> 2, snores |-> FALSE,
   prefers_same_major |-> FALSE, major_name |-> "cs",
   cleaning_frequency |-> 4, personality_extroversion |-> 1,
   weight_lifestyle_rhythm |-> 86, weight_noise |-> 9, weight_major |-> 10,
   weight_cleaning |-> 2, weight_age |-> 57, weight_personality |-> 1]

\* The float calculate_individual_satisfaction(evaluator, partner) returns
\* for people with these attribute vectors:
\*   A, A  93.22448979591836  0x1.74e5e0a72f053p+6
\*   B, B  85.9265306122449   0x1.57b4c470d956cp+6
\*   C, C  91.66949806949808  0x1.6ead90e6e4eaep+6
\*   A, B  54.50103966114747  0x1.b4022114f504cp+5
\*   B, A  72.09010396611474  0x1.205c4436cecf9p+6
Binary64Satisfaction ==
  (<<"ProfileA", "ProfileA">> :> <<791744, 534987, 381847, 0>>)
    @@ (<<"ProfileB", "ProfileB">> :> <<350976, 72758, 351955, 0>>)
    @@ (<<"ProfileC", "ProfileC">> :> <<240512, 276921, 375478, 0>>)
    @@ (<<"ProfileA", "ProfileB">> :> <<657792, 271006, 223236, 0>>)
    @@ (<<"ProfileB", "ProfileA">> :> <<736832, 69043, 295281, 0>>)

\* The pairs a run can return, by the attribute vectors of the two people.
StatisticsPairs ==
  {<<"ProfileA", "ProfileA">>, <<"ProfileB", "ProfileB">>,
   <<"ProfileC", "ProfileC">>, <<"ProfileA", "ProfileB">>,
   <<"ProfileB", "ProfileA">>}

\* min() and max() of a list of floats.
FloatMin(seq) ==
  CHOOSE x \in Range(seq) : \A y \in Range(seq) : ~BigLess(y, x)

FloatMax(seq) ==
  CHOOSE x \in Range(seq) : \A y \in Range(seq) : ~BigLess(x, y)

\* MatchingStatistics(...) of execute_matching on floats: the records it
\* can hold for a number of unmatched students and a list of pairs.
MatchingStatistics(len_unmatched_students, matched_pairs) ==
  LET all_satisfactions == AllSatisfactions(matched_pairs)
  IN {[total_students |-> len_unmatched_students,
       matched_students |-> Len(matched_pairs) * 2,
       unmatched_students |->
         len_unmatched_students - Len(matched_pairs) * 2,
       total_rooms |-> Len(matched_pairs),
       average_satisfaction |->
         IF all_satisfactions = <<>> THEN BigZero
         ELSE FloatDiv(total, Len(all_satisfactions)),
       min_satisfaction |->
         IF all_satisfactions = <<>> THEN BigZero
         ELSE FloatMin(all_satisfactions),
       max_satisfaction |->
         IF all_satisfactions = <<>> THEN BigZero
         ELSE FloatMax(all_satisfactions)]
      : total \in builtin_sum(all_satisfactions)}

\* The arguments tried: up to MaxPairs pairs, returned from a population
\* in which every person or all but one were paired.
StatisticsInit ==
  /\ students = <<>>
  /\ next_id = 1
  /\ response = Raised("none", "none", FALSE)
  /\ run = NoRun
  /\ \E n \in 1..MaxPairs :
       \E of \in [1..n -> StatisticsPairs] :
         \E left \in 0..1 :
           probe = [fn |-> "statistics_args",
                    len_unmatched_students |-> 2 * n + left,
                    matched_pairs |->
                      [k \in 1..n |->
                         [satisfaction_a |->
                            Binary64Satisfaction[<<of[k][1], of[k][2]>>],
                          satisfaction_b |->
                            Binary64Satisfaction[<<of[k][2], of[k][1]>>]]]]

\* Lines 85-105 of execute_matching on the returned pairs.
ComputeStatistics ==
  /\ probe.fn = "statistics_args"
  /\ \E statistics \in MatchingStatistics(probe.len_unmatched_students,
                                          probe.matched_pairs) :
       probe' = [fn |-> "statistics",
                 len_unmatched_students |-> probe.len_unmatched_students,
                 matched_pairs |-> probe.matched_pairs,
                 statistics |-> statistics]
  /\ UNCHANGED <<students, next_id, response, run>>

StatisticsSpec == StatisticsInit /\ [][ComputeStatistics]_vars

\* ------------------------------------------------------ concurrent requests
\* Two POST /matching/execute requests with dry_run = False, each with its
\* own session (get_db), interleaved at their awaits, and POST /students in
\* between.  probe.request holds each request's position and locals.
MaxConcurrentStudents == 3

Requests == {1, 2}

\* The columns assign_matches and the clustering write.
MatchColumns ==
  {"is_matched", "matched_room_id", "my_satisfaction_score",
   "partner_satisfaction_score", "cluster_id"}

NoRequest ==
  [pc |-> "start", outcome |-> "none", unmatched_students |-> <<>>,
   matched_pairs |-> <<>>, room_counter |-> None,
   loaded |-> <<>>, session |-> <<>>]

ConcurrentInit ==
  /\ students = <<>>
  /\ next_id = 1
  /\ response = Raised("none", "none", FALSE)
  /\ run = NoRun
  /\ probe = [fn |-> "requests", request |-> [r \in Requests |-> NoRequest]]

\* The session's objects after a SELECT: a row already in the identity map
\* keeps the object's attributes, any other row is loaded from the table.
Load(session, db, ids) ==
  [s \in DOMAIN session \cup ids |->
     IF s \in DOMAIN session THEN session[s] ELSE db[s]]

\* The flush at commit: one UPDATE per object, by primary key, of the
\* attributes whose value differs from the loaded one.
Flush(db, loaded, session) ==
  [s \in DOMAIN db |->
     IF s \in DOMAIN session
     THEN [f \in DOMAIN db[s] |->
             IF f \in MatchColumns /\ session[s][f] # loaded[s][f]
             THEN session[s][f] ELSE db[s][f]]
     ELSE db[s]]

\* execute_matching up to its second await: the SELECT of the unmatched
\* students and the pipeline on the loaded objects.
ReadUnmatched(r) ==
  /\ probe.request[r].pc = "start"
  /\ LET unmatched_students == get_unmatched_students(students)
         loaded == Load(<<>>, students, Range(unmatched_students))
         finish(outcome) ==
           /\ probe' = [probe EXCEPT !.request[r] =
                          [@ EXCEPT !.pc = "done", !.outcome = outcome,
                                    !.unmatched_students = unmatched_students]]
           /\ response' = Raised("execute", outcome, FALSE)
     IN IF InsufficientStudents(unmatched_students)
        THEN finish("insufficient")
        ELSE \E res \in match_students_by_groups(loaded,
                          HardFilter(loaded, unmatched_students, "male", FALSE),
                          HardFilter(loaded, unmatched_students, "male", TRUE),
                          HardFilter(loaded, unmatched_students, "female", FALSE),
                          HardFilter(loaded, unmatched_students, "female", TRUE)) :
               IF NoMatches(res.all_matched_pairs)
               THEN finish("nomatch")
               ELSE /\ probe' = [probe EXCEPT !.request[r] =
                                   [@ EXCEPT
                                      !.pc = "matched",
                                      !.unmatched_students = unmatched_students,
                                      !.matched_pairs = res.all_matched_pairs,
                                      !.loaded = loaded,
                                      !.session =
                                         WithClusterIds(loaded, res.cluster_id)]]
                    /\ UNCHANGED response
  /\ UNCHANGED <<students, next_id, run>>

\* _get_next_room_id: the SELECT of all students in the request's session.
ReadNextRoomId(r) ==
  /\ probe.request[r].pc = "matched"
  /\ LET q == probe.request[r]
         session == Load(q.session, students, DOMAIN students)
     IN probe' = [probe EXCEPT !.request[r] =
                    [@ EXCEPT !.pc = "counted",
                              !.room_counter = get_next_room_id(session),
                              !.loaded = Load(q.loaded, students, DOMAIN students),
                              !.session = session]]
  /\ UNCHANGED <<students, next_id, response, run>>

\* assign_matches with its commit, and the response.
AssignMatches(r) ==
  /\ probe.request[r].pc = "counted"
  /\ LET q == probe.request[r]
         assignments == Assignments(q.matched_pairs, q.room_counter)
         session == assign_matches(q.session, assignments)
     IN /\ students' = Flush(students, q.loaded, session)
        /\ probe' = [probe EXCEPT !.request[r] =
                       [@ EXCEPT !.pc = "done", !.outcome = "ok",
                                 !.session = session]]
        /\ response' = [op |-> "execute", outcome |-> "ok",
                        dry_run |-> FALSE,
                        status_code |-> http_status("execute", "ok"),
                        students_updated |-> 2 * Len(assignments),
                        statistics |->
                          Statistics(q.unmatched_students, q.matched_pairs)]
  /\ UNCHANGED <<next_id, run>>

\* POST /students while the requests are in flight.
ConcurrentCreateStudent ==
  /\ next_id <= MaxConcurrentStudents
  /\ CreateStudent

ConcurrentNext ==
  \/ \E r \in Requests : ReadUnmatched(r)
  \/ \E r \in Requests : ReadNextRoomId(r)
  \/ \E r \in Requests : AssignMatches(r)
  \/ ConcurrentCreateStudent

ConcurrentSpec == ConcurrentInit /\ [][ConcurrentNext]_vars

\* ------------------------------------------- results after deleted students
\* POST /matching/execute, DELETE /matching/reset, DELETE /students/{id}
\* and GET /matching/results, one request at a time.
MaxResultsStudents == 3

\* count_matched_rooms: the distinct room ids of the matched students.
count_matched_rooms(db) ==
  Cardinality({db[s].matched_room_id :
                 s \in {t \in DOMAIN db :
                          db[t].is_matched /\ db[t].matched_room_id # None}})

\* rooms_dict of get_matched_students_by_room.
rooms_dict(db) ==
  [room_id \in {db[s].matched_room_id : s \in {t \in DOMAIN db : db[t].is_matched}}
     |-> {s \in DOMAIN db : db[s].is_matched /\ db[s].matched_room_id = room_id}]

\* One entry of the room list; a score that is None or 0.0 is falsy.
RoomAssignment(db, room_id, student_a, student_b) ==
  LET sat_a == db[student_a].my_satisfaction_score
      sat_b == db[student_b].my_satisfaction_score
      sum == RatAdd(sat_a, sat_b)
  IN [room_id |-> room_id,
      student_a_id |-> db[student_a].student_id,
      student_a_satisfaction |-> sat_a,
      student_b_id |-> db[student_b].student_id,
      student_b_satisfaction |-> sat_b,
      average_satisfaction |->
        IF sat_a # NoScore /\ sat_a.num # 0 /\ sat_b # NoScore /\ sat_b.num # 0
        THEN [num |-> sum.num, den |-> 2 * sum.den] ELSE RatZero]

\* The room lists the loop over sorted(rooms_dict.keys()) can build: a room
\* is listed when it has exactly two students, who come in the order the
\* query returned them (ORDER BY matched_room_id only).
RECURSIVE RoomList(_, _)
RoomList(db, room_ids) ==
  IF room_ids = <<>> THEN {<<>>}
  ELSE LET room_id == Head(room_ids)
           students_in_room == rooms_dict(db)[room_id]
       IN IF Cardinality(students_in_room) = 2
          THEN UNION {{<<RoomAssignment(db, room_id, a, b)>> \o rest :
                         b \in students_in_room \ {a},
                         rest \in RoomList(db, Tail(room_ids))}
                      : a \in students_in_room}
          ELSE RoomList(db, Tail(room_ids))

\* get_matched_students_by_room: rooms[skip:skip + limit].
get_matched_students_by_room(db, skip, limit) ==
  {SubSeq(rooms, skip + 1, Min(skip + limit, Len(rooms)))
     : rooms \in RoomList(db, SortedSeq(DOMAIN rooms_dict(db)))}

\* GET /matching/results
GetMatchingResults ==
  /\ \E skip \in {0, 1}, limit \in {1, 100} :
       \E rooms \in get_matched_students_by_room(students, skip, limit) :
         response' = [op |-> "results", outcome |-> "ok", dry_run |-> FALSE,
                      status_code |-> 200, students_updated |-> 0,
                      statistics |-> NoStatistics,
                      total |-> count_matched_rooms(students),
                      skip |-> skip, limit |-> limit, rooms |-> rooms]
  /\ run' = NoRun
  /\ UNCHANGED <<students, next_id, probe>>

\* DELETE /students/{student_id}
DeleteStudent ==
  \E student_id \in Ids :
    LET found == {s \in DOMAIN students : students[s].student_id = student_id}
    IN /\ IF found = {}
          THEN /\ response' = [Raised("delete", "notfound", FALSE) EXCEPT
                                 !.status_code = 404]
               /\ UNCHANGED students
          ELSE /\ response' = [Raised("delete", "ok", FALSE) EXCEPT
                                 !.status_code = 204]
               /\ students' = [s \in DOMAIN students \ found |-> students[s]]
       /\ run' = NoRun
       /\ UNCHANGED <<next_id, probe>>

\* POST /students, for the first MaxResultsStudents people.
ResultsCreateStudent ==
  /\ next_id <= MaxResultsStudents
  /\ CreateStudent

ResultsNext ==
  \/ ResultsCreateStudent
  \/ ExecuteMatching
  \/ ResetMatching
  \/ DeleteStudent
  \/ GetMatchingResults

ResultsSpec == Init /\ [][ResultsNext]_vars

\* ================================================================= claims
Pairs == run.all_matched_pairs

IsExecute == response.op = "execute"

PipelineRan == IsExecute /\ run.grouped

Sat(a, b) == calculate_individual_satisfaction(students[a], students[b])

\* C1: in the list of pairs returned by one run of match_students_by_groups
\* no person id appears in more than one pair, and no pair contains the
\* same person twice.
C1_ValidMatching ==
  \A i \in DOMAIN Pairs :
    /\ Pairs[i].student_a # Pairs[i].student_b
    /\ \A j \in DOMAIN Pairs :
         i # j => {Pairs[i].student_a, Pairs[i].student_b}
                    \cap {Pairs[j].student_a, Pairs[j].student_b} = {}

\* A run that returned a cluster-stage pair and a leftover-stage pair.
C1_Witness ==
  /\ PipelineRan
  /\ run.n_cluster_pairs >= 1
  /\ Len(Pairs) > run.n_cluster_pairs

\* C2: the two people of every returned pair have the same gender, and the
\* same smoking status too unless the pair was formed in the leftover
\* stage.
C2_HardFilters ==
  \A k \in DOMAIN Pairs :
    LET a == students[Pairs[k].student_a]
        b == students[Pairs[k].student_b]
    IN /\ a.gender = b.gender
       /\ k <= run.n_cluster_pairs => a.is_smoker = b.is_smoker

\* A run whose leftover stage paired a smoker with a non-smoker.
C2_Witness ==
  /\ PipelineRan
  /\ \E k \in DOMAIN Pairs :
       /\ k > run.n_cluster_pairs
       /\ students[Pairs[k].student_a].is_smoker
            # students[Pairs[k].student_b].is_smoker
       /\ students[Pairs[k].student_a].gender
            = students[Pairs[k].student_b].gender

\* C3: for every tuple (A, B, satA, satB) returned by blossom_match_cluster,
\* satA is satisfaction(A, B) with A as evaluator and satB is
\* satisfaction(B, A) with B as evaluator, whichever endpoint order the
\* matching algorithm reports the pair in.
C3_DirectionKept ==
  \A call \in run.calls :
    \A k \in DOMAIN call.matched_pairs :
      LET p == call.matched_pairs[k]
      IN /\ RatEq(p.satisfaction_a, Sat(p.student_a, p.student_b))
         /\ RatEq(p.satisfaction_b, Sat(p.student_b, p.student_a))

\* C4: blossom_match_cluster on n distinct people leaves 0 unmatched when n
\* is even and n >= 2, 1 when n is odd and n >= 3, and for n < 2 returns no
\* pairs and the whole input as the remainder.
C4_RemainderSize ==
  \A call \in run.calls :
    LET n == Len(call.students)
    IN /\ n < 2 => call.matched_pairs = <<>> /\ call.unmatched = call.students
       /\ (n >= 2 /\ n % 2 = 0) => Len(call.unmatched) = 0
       /\ (n >= 3 /\ n % 2 = 1) => Len(call.unmatched) = 1

\* A run that called blossom_match_cluster on one, on two and on three
\* people.
C4_Witness ==
  /\ PipelineRan
  /\ \E c1, c2, c3 \in run.calls :
       /\ Len(c1.students) = 1 /\ c1.unmatched = c1.students
       /\ Len(c2.students) = 2 /\ Len(c2.matched_pairs) = 1
       /\ Len(c3.students) = 3 /\ Len(c3.unmatched) = 1

\* C5: after leftover resolution in a run, for every gender value occurring
\* among the eligible people at most one person of that gender remains
\* unmatched.
C5_AtMostOneLeftPerGender ==
  PipelineRan =>
    \A g \in Genders :
      Cardinality({s \in Range(run.unmatched_students) :
                     /\ students[s].gender = g
                     /\ s \notin MatchedIds(Pairs)}) <= 1

C8_FailedRunKeepsState ==
  [][(response'.op = "execute"
        /\ response'.outcome \in {"insufficient", "nomatch"})
       => students' = students]_vars

\* A failed run whose clustering had written cluster ids on the loaded
\* student objects, none of which is in the table.
C8_Witness ==
  /\ IsExecute
  /\ response.outcome = "nomatch"
  /\ run.calls # {}
  /\ \A s \in DOMAIN students : students[s].cluster_id = None

AssignedRoomIds(db) ==
  {db[s].matched_room_id : s \in {t \in DOMAIN db : db[t].matched_room_id # None}}

\* C9: in a successful run the pairs receive consecutive room ids starting
\* at the current maximum assigned room id plus 1, or at 1 when none is
\* assigned; every room id of the run is greater than every previously
\* assigned one and no two pairs of the run share a room id.
C9_RoomIds ==
  [][(response'.op = "execute" /\ response'.outcome = "ok") =>
       LET a == run'.assignments
           before == AssignedRoomIds(students)
       IN /\ Len(a) = Len(run'.all_matched_pairs)
          /\ \A k \in DOMAIN a :
               /\ a[k].student_a = run'.all_matched_pairs[k].student_a
               /\ a[k].student_b = run'.all_matched_pairs[k].student_b
               /\ \A r \in before : a[k].room_id > r
               /\ k > 1 => a[k].room_id = a[k - 1].room_id + 1
               /\ \A j \in DOMAIN a : j # k => a[j].room_id # a[k].room_id
          /\ before = {} => a[1].room_id = 1
          /\ before # {} => (a[1].room_id - 1) \in before]_vars

\* A successful run that started above a room id assigned by an earlier
\* run.
C9_Witness ==
  /\ IsExecute
  /\ response.outcome = "ok"
  /\ run.assignments[1].room_id > 1

PersistedMatchFields(row) ==
  <<row.is_matched, row.matched_room_id, row.my_satisfaction_score,
    row.partner_satisfaction_score>>

\* C10: a dry run of execute_matching skips the persistence call: it
\* reports students_updated = 0 and leaves every person's persisted matched
\* flag, room id and satisfaction scores unchanged, while still returning
\* the computed statistics.
C10_DryRun ==
  [][(response'.op = "execute" /\ response'.dry_run) =>
       /\ response'.students_updated = 0
       /\ DOMAIN students' = DOMAIN students
       /\ \A s \in DOMAIN students :
            PersistedMatchFields(students'[s]) = PersistedMatchFields(students[s])
       /\ response'.outcome = "ok" =>
            /\ response'.statistics.total_rooms = Len(run'.all_matched_pairs)
            /\ response'.statistics.total_rooms >= 1
            /\ response'.statistics.matched_students
                 = 2 * Len(run'.all_matched_pairs)
            /\ response'.statistics.total_students
                 = Cardinality({s \in DOMAIN students :
                                  ~students[s].is_matched})]_vars

\* A successful dry run that computed two rooms.
C10_Witness ==
  /\ IsExecute
  /\ response.dry_run
  /\ response.outcome = "ok"
  /\ response.statistics.total_rooms = 2
  /\ \A s \in DOMAIN students : ~students[s].is_matched

\* The unordered pairs a run returned.
PairSet(r) ==
  {{r.all_matched_pairs[k].student_a, r.all_matched_pairs[k].student_b}
     : k \in DOMAIN r.all_matched_pairs}

\* C11: two runs of the pipeline on the same input set of people produce
\* identical cluster labels and an identical set of matched pairs.  The two
\* runs are a preview and the run that follows it: the preview leaves the
\* eligible people and their attributes as they were.
C11_Deterministic ==
  [][(/\ PipelineRan
      /\ response.dry_run
      /\ response'.op = "execute"
      /\ run'.grouped
      /\ run'.unmatched_students = run.unmatched_students)
       => /\ PairSet(run') = PairSet(run)
          /\ (response.outcome = "ok" /\ response'.outcome = "ok") =>
               \A s \in Range(run.unmatched_students) :
                 students'[s].cluster_id = students[s].cluster_id]_vars

\* A score as the program's float lies in [0, 100].
InPercentRange(x) == x.den > 0 /\ 0 <= x.num /\ x.num <= 100 * x.den

\* C12: for every ordered pair of people whose attributes and weights are
\* within the documented ranges, calculate_individual_satisfaction lies in
\* [0, 100], and so does the edge weight (the mean of the two directions).
C12_SatisfactionInRange ==
  probe.fn = "score" =>
    /\ InPercentRange(probe.satisfaction_a)
    /\ InPercentRange(probe.satisfaction_b)
    /\ InPercentRange(probe.blossom_score)

\* A pair whose noise and age dissatisfactions both reach the clamp, scored
\* with every weight at 100.
C12_Witness ==
  /\ probe.fn = "score"
  /\ calculate_noise_dissatisfaction(probe.evaluator, probe.partner) = Hundred
  /\ Abs(probe.evaluator.age - probe.partner.age) > 10
  /\ \A f \in WeightFields : probe.evaluator[f] = 100

\* The edge weight of a pair of people: the mean of the two directional
\* satisfactions, from the people's attributes.
MeanSatisfaction(e) ==
  LET u == CHOOSE n \in e : TRUE
      v == CHOOSE n \in e : n # u
  IN calculate_blossom_score(students[u], students[v])

RECURSIVE TotalMeanSatisfaction(_)
TotalMeanSatisfaction(m) ==
  IF m = {} THEN RatZero
  ELSE LET e == CHOOSE f \in m : TRUE
       IN RatAdd(MeanSatisfaction(e), TotalMeanSatisfaction(m \ {e}))

\* The unordered pairs one call of blossom_match_cluster returned.
CallPairSet(call) ==
  {{call.matched_pairs[k].student_a, call.matched_pairs[k].student_b}
     : k \in DOMAIN call.matched_pairs}

\* The matchings of a cluster that use as many people as possible.
LargestMatchings(call) ==
  {m \in Matchings(Range(call.students)) :
     Cardinality(m) = Len(call.students) \div 2}

\* C14: for every cluster of at least 2 people the matching returned by
\* blossom_match_cluster has floor(n/2) pairs and, among all matchings of
\* that cardinality on the complete graph of the cluster, the maximum total
\* edge weight, the edge weight being the mean of the two directional
\* satisfactions.
C14_MaximumWeight ==
  \A call \in run.calls :
    Len(call.students) >= 2 =>
      /\ Len(call.matched_pairs) = Len(call.students) \div 2
      /\ CallPairSet(call) \in LargestMatchings(call)
      /\ \A o \in LargestMatchings(call) :
           ~RatLess(TotalMeanSatisfaction(CallPairSet(call)),
                    TotalMeanSatisfaction(o))

\* A call on four people for which some perfect matching weighs strictly
\* less than the one returned.
C14_Witness ==
  \E call \in run.calls :
    /\ Len(call.students) = 4
    /\ \E o \in LargestMatchings(call) :
         RatLess(TotalMeanSatisfaction(o),
                 TotalMeanSatisfaction(CallPairSet(call)))

\* The eligible people of the last run.
Eligible == Range(run.unmatched_students)

\* All eligible people are in one hard-filter group.
OneHardFilterGroup ==
  \E gender \in {"male", "female"}, is_smoker \in BOOLEAN :
    \A s \in Eligible :
      students[s].gender = gender /\ students[s].is_smoker = is_smoker

\* C15: when the whole eligible population lies in one hard-filter group
\* and has n >= 2 members, a run yields exactly floor(n/2) pairs and
\* n mod 2 leftovers.
C15_OneGroup ==
  (PipelineRan /\ OneHardFilterGroup) =>
    LET n == Len(run.unmatched_students)
    IN /\ n >= 2
       /\ Len(Pairs) = n \div 2
       /\ Len(run.all_remaining) = n % 2
       /\ Eligible \ MatchedIds(Pairs) = Range(run.all_remaining)
       /\ response.outcome = "ok"
       /\ response.statistics.total_rooms = n \div 2
       /\ response.statistics.unmatched_students = n % 2

\* A run on three people of one group: one pair, one leftover.
C15_Witness ==
  /\ PipelineRan
  /\ OneHardFilterGroup
  /\ Len(run.unmatched_students) = 3
  /\ Len(Pairs) = 1
  /\ Len(run.all_remaining) = 1

\* The eligible people are one non-smoker and one smoker of one gender.
SmokerAndNonSmoker ==
  /\ Len(run.unmatched_students) = 2
  /\ \E gender \in {"male", "female"} :
       \A s \in Eligible : students[s].gender = gender
  /\ \E s, t \in Eligible : students[s].is_smoker /\ ~students[t].is_smoker

\* C16: when the eligible population is exactly one non-smoker and one
\* smoker of the same gender, the per-group stage produces 0 pairs and the
\* leftover resolution pairs the two, so the run returns exactly one pair
\* whose members differ in smoking status and does not raise the no-match
\* error.
C16_CrossSmokingPair ==
  (PipelineRan /\ SmokerAndNonSmoker) =>
    /\ run.n_cluster_pairs = 0
    /\ \A call \in run.calls :
         Len(call.students) < 2 => call.matched_pairs = <<>>
    /\ Len(Pairs) = 1
    /\ students[Pairs[1].student_a].is_smoker
         # students[Pairs[1].student_b].is_smoker
    /\ run.all_remaining = <<>>
    /\ response.outcome = "ok"

\* A run on a female non-smoker and a female smoker that returned the pair.
C16_Witness ==
  /\ PipelineRan
  /\ SmokerAndNonSmoker
  /\ \A s \in Eligible : students[s].gender = "female"
  /\ Len(Pairs) = 1
  /\ response.outcome = "ok"

\* C18 as stated: at the API boundary of execute and preview the
\* insufficient-candidates error is a client-visible precondition failure
\* (4xx) and the no-match error is a server-side failure (5xx).
C18_NoMatchIsServerFailure ==
  IsExecute =>
    /\ response.outcome = "insufficient" =>
         (response.status_code >= 400 /\ response.status_code < 500)
    /\ response.outcome = "nomatch" =>
         (response.status_code >= 500 /\ response.status_code < 600)

\* C18 as amended: the insufficient-candidates error is surfaced as 400 and
\* the no-match error as 404, both client-visible failures, and a run that
\* succeeds as 200.
C18_ErrorsAreClientFailures ==
  IsExecute =>
    /\ response.outcome = "insufficient" <=> response.status_code = 400
    /\ response.outcome = "nomatch" <=> response.status_code = 404
    /\ response.outcome = "ok" <=> response.status_code = 200

\* A preview of two people that cannot be paired, answered with 404.
C18_Witness ==
  /\ IsExecute
  /\ response.dry_run
  /\ response.outcome = "nomatch"
  /\ response.status_code = 404
  /\ Len(run.unmatched_students) >= 2

\* apply_draft_clustering has been called.
Clustered == probe.fn \in {"clustered", "matched"}

\* The call is the scenario's: one person more than the pipeline's target
\* size.
OneOverTarget ==
  /\ Clustered
  /\ probe.n = TargetSize + 1
  /\ probe.target_size = TargetSize

ClusterSizes == {Len(probe.clusters[k]) : k \in DOMAIN probe.clusters}

\* C17 as stated: a hard-filter group of 101 people with target_size = 100
\* is partitioned into 2 clusters (100 + 1), and the run produces at least
\* 50 matched pairs with at most 1 overall leftover.
C17_TwoClusters ==
  OneOverTarget =>
    /\ Len(probe.clusters) = 2
    /\ ClusterSizes = {TargetSize, 1}
    /\ probe.fn = "matched" =>
         /\ 2 * Len(probe.all_matched_pairs) >= TargetSize
         /\ Len(probe.all_remaining) <= 1

\* C17 as amended: a hard-filter group of 101 people with target_size = 100
\* is kept as one cluster of 101; and a group larger than its target size,
\* however it is labelled, yields floor(n/2) pairs and at most 1 leftover
\* after the leftover stage.
C17_OneCluster ==
  /\ OneOverTarget =>
       /\ Len(probe.clusters) = 1
       /\ probe.clusters[1] = probe.group
       /\ Len(probe.clusters[1]) = TargetSize + 1
  /\ (probe.fn = "matched" /\ probe.n > probe.target_size) =>
       /\ Len(probe.all_matched_pairs) = probe.n \div 2
       /\ Len(probe.all_remaining) = probe.n % 2

\* The group of 101 people, clustered with target_size = 100.
C17_Witness ==
  /\ OneOverTarget
  /\ Len(probe.clusters) = 1
  /\ Len(probe.clusters[1]) = TargetSize + 1

\* C19: clustering and matching do not modify any field of the Person
\* records they are given; cluster membership is carried in separate
\* structures, not written onto the records.
C19_RecordsReadOnly ==
  Clustered => probe.after = probe.before

\* C20: apply_draft_clustering assigns every member of a group of size
\* n <= target_size to the single cluster 0; for n > target_size it
\* requests k = max(1, n // target_size) clusters, so the number of
\* non-empty clusters is between 1 and n // target_size.
C20_ClusterCount ==
  Clustered =>
    LET n == probe.n
        quotient == n \div probe.target_size
        k == IF quotient < 1 THEN 1 ELSE quotient
    IN /\ Len(probe.labels) = n
       /\ n <= probe.target_size =>
            /\ \A i \in 1..n : probe.labels[i] = 0
            /\ Len(probe.clusters) = (IF n = 0 THEN 0 ELSE 1)
       /\ n > probe.target_size =>
            /\ \A i \in 1..n : probe.labels[i] \in 0..(k - 1)
            /\ Len(probe.clusters) >= 1
            /\ Len(probe.clusters) <= quotient
       /\ \A s \in Range(probe.group) :
            Cardinality({c \in DOMAIN probe.clusters :
                           s \in Range(probe.clusters[c])}) = 1

\* A group of four people with target size 1, labelled into three non-empty
\* clusters out of the four requested.
C20_Witness ==
  /\ Clustered
  /\ probe.n = 4
  /\ probe.target_size = 1
  /\ Len(probe.clusters) = 3

\* The partner of the scored call with the preference weights replaced.
WithWeights(person, weights) ==
  [f \in AttributeFields |-> person[f]] @@ weights

\* C21: calculate_individual_satisfaction depends on weights only through
\* the evaluator's own six weights: for two partners identical in every
\* attribute but different in their preference weights, the evaluator's
\* satisfaction with the one equals their satisfaction with the other.
C21_PartnerWeightsIgnored ==
  probe.fn = "score" =>
    \A weights \in ScoreWeights :
      RatEq(calculate_individual_satisfaction(
              probe.evaluator, WithWeights(probe.partner, weights)),
            probe.satisfaction_a)

\* A scored call whose evaluator weighs noise only and whose partner weighs
\* age only, the two people differing in both noise and age.
C21_Witness ==
  /\ probe.fn = "score"
  /\ probe.evaluator.weight_noise = 100
  /\ probe.evaluator.weight_age = 0
  /\ probe.partner.weight_noise = 0
  /\ probe.partner.weight_age = 100
  /\ probe.evaluator.age # probe.partner.age
  /\ calculate_noise_dissatisfaction(probe.evaluator, probe.partner) > 0

\* The pairs of the cluster stage and those of the leftover stage, in the
\* order the run appended them.
ClusterPairs == SubSeq(Pairs, 1, run.n_cluster_pairs)

LeftoverPairs == SubSeq(Pairs, run.n_cluster_pairs + 1, Len(Pairs))

\* The people of the four hard-filter groups that no cluster matching
\* paired, as a whole and by gender.
LeftoverPool ==
  {s \in Range(run.unmatched_students) :
     students[s].gender \in {"male", "female"}} \ MatchedIds(ClusterPairs)

LeftoverPoolOf(gender) == {s \in LeftoverPool : students[s].gender = gender}

\* The calls to blossom_match_cluster made on the whole pool of a gender.
LeftoverCalls(gender) ==
  {call \in run.calls : Range(call.students) = LeftoverPoolOf(gender)}

\* The pairs the leftover stage appended for a gender: those of the one
\* call on the gender's pool, none when the pool has fewer than 2 people.
LeftoverPairsOf(gender) ==
  IF Cardinality(LeftoverPoolOf(gender)) >= 2 /\ LeftoverCalls(gender) # {}
  THEN (CHOOSE call \in LeftoverCalls(gender) : TRUE).matched_pairs
  ELSE <<>>

\* C22: leftover resolution starts only after the per-cluster matching of
\* every cluster of all four groups: its pairs come after every cluster
\* pair, its pool is exactly the people the cluster matchings left
\* unmatched, whatever their group (nobody already in a pair enters it),
\* and the pool is split by gender only, each gender's pool matched once.
C22_LeftoverStage ==
  PipelineRan =>
    /\ \A k \in DOMAIN ClusterPairs :
         \E call \in run.calls :
           /\ ClusterPairs[k] \in Range(call.matched_pairs)
           /\ \A s, t \in Range(call.students) :
                /\ students[s].gender = students[t].gender
                /\ students[s].is_smoker = students[t].is_smoker
    /\ \A gender \in {"male", "female"} :
         IF Cardinality(LeftoverPoolOf(gender)) >= 2
         THEN Cardinality(LeftoverCalls(gender)) = 1
         ELSE \A call \in run.calls :
                Range(call.students) \cap LeftoverPoolOf(gender)
                  \subseteq Range(call.unmatched)
    /\ LeftoverPairs = LeftoverPairsOf("male") \o LeftoverPairsOf("female")
    /\ MatchedIds(LeftoverPairs) \subseteq LeftoverPool

\* A run with a cluster pair whose leftover stage paired the odd one of
\* the non-smoker group with the odd one of the smoker group.
C22_Witness ==
  /\ PipelineRan
  /\ run.n_cluster_pairs >= 1
  /\ \E gender \in {"male", "female"} :
       /\ Cardinality(LeftoverPoolOf(gender)) = 2
       /\ \E s, t \in LeftoverPoolOf(gender) :
            students[s].is_smoker /\ ~students[t].is_smoker
       /\ Len(LeftoverPairsOf(gender)) = 1
       /\ LeftoverPairs = LeftoverPairsOf(gender)

\* Every assigned room id is held by exactly two people, both matched.
RoomsHeldByTwo(db) ==
  \A r \in AssignedRoomIds(db) :
    LET held == {s \in DOMAIN db : db[s].matched_room_id = r}
    IN Cardinality(held) = 2 /\ \A s \in held : db[s].is_matched

\* The people holding a room id.
Occupants(db, r) == {s \in DOMAIN db : db[s].matched_room_id = r}

\* C23: after a successful non-dry run that starts from a state in which
\* every assigned room id is held by exactly two matched people, each room
\* id assigned by the run is held by exactly the two people of one
\* returned pair, both marked matched, and every person not in a returned
\* pair keeps their previous matched flag and room id.
C23_AssignmentsPersisted ==
  [][(/\ response'.op = "execute"
      /\ response'.outcome = "ok"
      /\ ~response'.dry_run
      /\ RoomsHeldByTwo(students))
       => /\ \A k \in DOMAIN run'.assignments :
               LET a == run'.assignments[k]
                   p == run'.all_matched_pairs[k]
               IN /\ Occupants(students', a.room_id)
                       = {p.student_a, p.student_b}
                  /\ p.student_a # p.student_b
                  /\ students'[p.student_a].is_matched
                  /\ students'[p.student_b].is_matched
          /\ Len(run'.assignments) = Len(run'.all_matched_pairs)
          /\ \A s \in DOMAIN students' \ MatchedIds(run'.all_matched_pairs) :
               /\ students'[s].is_matched = students[s].is_matched
               /\ students'[s].matched_room_id = students[s].matched_room_id]_vars

\* A second persisted run: it assigned room 2 to its one pair while room 1
\* was held by the two people of an earlier run.
C23_Witness ==
  /\ IsExecute
  /\ response.outcome = "ok"
  /\ ~response.dry_run
  /\ Len(run.assignments) = 1
  /\ run.assignments[1].room_id = 2
  /\ Cardinality(Occupants(students, 1)) = 2
  /\ Occupants(students, 1) \cap MatchedIds(Pairs) = {}

\* The step is a successful run that persisted its assignments.
PersistedRun(resp) ==
  resp.op = "execute" /\ resp.outcome = "ok" /\ ~resp.dry_run

C25_Statistics ==
  probe.fn = "statistics" =>
    LET s == probe.statistics
        all == AllSatisfactions(probe.matched_pairs)
    IN /\ s.total_rooms = Len(probe.matched_pairs)
       /\ s.matched_students = 2 * Len(probe.matched_pairs)
       /\ s.matched_students + s.unmatched_students
            = probe.len_unmatched_students
       /\ s.min_satisfaction \in Range(all)
       /\ s.max_satisfaction \in Range(all)
       /\ \A x \in Range(all) :
            ~BigLess(x, s.min_satisfaction) /\ ~BigLess(s.max_satisfaction, x)
       /\ ~BigLess(s.average_satisfaction, s.min_satisfaction)
       /\ ~BigLess(s.max_satisfaction, s.average_satisfaction)

\* C26: under any interleaving of two concurrent non-dry execute_matching
\* requests (each reading the unmatched people, reading the next room id,
\* then writing and committing its assignments), possibly with a person
\* created in between, the final persisted state has every assigned room
\* id held by exactly two people and no person assigned by two different
\* runs to different roommates.
C26_ConcurrentRuns ==
  (probe.fn = "requests" /\ \A r \in Requests : probe.request[r].pc = "done")
    => /\ \A room \in AssignedRoomIds(students) :
            Cardinality(Occupants(students, room)) = 2
       /\ \A r1, r2 \in Requests :
            \A i \in DOMAIN probe.request[r1].matched_pairs :
              \A j \in DOMAIN probe.request[r2].matched_pairs :
                LET p1 == probe.request[r1].matched_pairs[i]
                    p2 == probe.request[r2].matched_pairs[j]
                IN {p1.student_a, p1.student_b}
                     \cap {p2.student_a, p2.student_b} # {}
                   => {p1.student_a, p1.student_b}
                        = {p2.student_a, p2.student_b}

\* C27: a run of execute_matching considers only people who are unmatched
\* at its start: over any sequence of requests without a reset, every
\* person matched by an earlier run is outside the run's candidates and
\* pairs and keeps the same room id, the same roommate and the same stored
\* satisfaction scores.
C27_MatchedPeopleKept ==
  [][response'.op # "reset" =>
       \A s \in DOMAIN students :
         students[s].is_matched =>
           /\ s \in DOMAIN students'
           /\ PersistedMatchFields(students'[s]) = PersistedMatchFields(students[s])
           /\ Occupants(students', students[s].matched_room_id)
                = Occupants(students, students[s].matched_room_id)
           /\ response'.op = "execute" =>
                /\ s \notin Range(run'.unmatched_students)
                /\ s \notin MatchedIds(run'.all_matched_pairs)]_vars

\* A persisted run on people created after an earlier persisted run, whose
\* two people still hold room 1.
C27_Witness ==
  /\ IsExecute
  /\ response.outcome = "ok"
  /\ ~response.dry_run
  /\ \E s, t \in DOMAIN students :
       /\ s # t
       /\ Occupants(students, 1) = {s, t}
       /\ {s, t} \cap Range(run.unmatched_students) = {}
  /\ \A k \in DOMAIN run.assignments : run.assignments[k].room_id >= 2

\* The people of a gender among those unmatched at the start of the run.
EligibleOf(gender) ==
  {s \in Range(run.unmatched_students) : students[s].gender = gender}

C29_TotalIsListed ==
  (response.op = "results" /\ response.skip = 0
     /\ response.limit >= response.total)
    => /\ Len(response.rooms) = response.total
       /\ \A room_id \in DOMAIN rooms_dict(students) :
            /\ Cardinality(rooms_dict(students)[room_id]) = 2
            /\ \E k \in DOMAIN response.rooms :
                 response.rooms[k].room_id = room_id

\* C30: after a successful non-dry run, an immediately following run with
\* no intervening creation, update, deletion or reset produces no pair: it
\* fails with the insufficient-candidates or the no-match error and
\* changes no persisted state.
C30_SecondRunFails ==
  [][(PersistedRun(response) /\ response'.op = "execute")
       => /\ response'.outcome \in {"insufficient", "nomatch"}
          /\ run'.all_matched_pairs = <<>>
          /\ students' = students]_vars

\* A failed run on the two people a persisted run left unmatched beside
\* its room.
C30_Witness ==
  /\ IsExecute
  /\ response.outcome = "nomatch"
  /\ Cardinality(Occupants(students, 1)) = 2
  /\ Len(run.unmatched_students) = 2
  /\ Cardinality(DOMAIN students) = 4
  /\ AssignedRoomIds(students) = {1}

====
